---- MODULE Spec2Model ----
(***************************************************************************)
(* A model of the UECP encoder of bkram/uecprds: the frame codec, the send *)
(* methods over the serial line, and the daemon that runs them from three  *)
(* workers.  The repository holds two copies of the encoder: the library   *)
(* package (src/pkg/uecprds/uecprds.go), whose operators keep the source's *)
(* names, and the daemon (src/main.go, package main), whose operators      *)
(* carry the prefix main_.  A byte is a number in 0..255, a byte slice a   *)
(* sequence of bytes.                                                      *)
(***************************************************************************)
EXTENDS Integers, Sequences, FiniteSets, TLC

VARIABLES
    data,        \* the byte slice handed to the codec function under call
    mec,         \* the message element code handed to buildGroup
    out,         \* the byte slice the last codec function returned
    crc,         \* the value the last crc16 call returned
    op,          \* the operation that ran last ("none" before the first call)
    afList,      \* the frequency list handed to SendAF / buildAFPayload
    text,        \* the text handed to SendPS / SendRT, as its bytes
    message,     \* the message the last send handed to sendMessage
    err,         \* the error the last operation returned to its caller
    logged,      \* the error the last operation of the daemon copy logged
    port,        \* the package copy's port handle: "nil" or "open"
    serialPort,  \* the daemon copy's serialPort handle: "nil", "open" or "closed"
    wire,        \* the frames written to the serial line, in order
    calls,       \* the calls the last operation made on the serial line, with their failures
    pi,          \* the station's programme identification code (an int)
    pty,         \* the station's programme type code (an int)
    ms,          \* the music/speech flag
    tp,          \* the traffic programme flag
    ta,          \* the traffic announcement flag
    di,          \* the decoder information byte
    dt,          \* the timestamp handed to SendCTProfline
    config,      \* the daemon's configuration, as far as Run and the workers read it
    pc,          \* the daemon's goroutines: where each of them stands
    stopChan,    \* the daemon's stop channel: "open" or "closed"
    wg,          \* the number of completion signals buffered in the channel wg
    received,    \* the number of completion signals Run has received
    locals,      \* per worker: its loop index, its sends chosen before / after the stop
    panicked     \* the daemon has died of a nil dereference in a goroutine

codecVars == <<data, mec, out, crc>>
sendVars == <<afList, text, message, err, logged, port, serialPort, wire, calls>>
stationVars == <<pi, pty, ms, tp, ta, di, dt>>
daemonVars == <<config, pc, stopChan, wg, received, locals, panicked>>
envVars == <<stationVars, daemonVars>>
vars == <<data, mec, out, crc, op, afList, text, message, err, logged, port, serialPort, wire,
          calls, pi, pty, ms, tp, ta, di, dt, config, pc, stopChan, wg, received, locals, panicked>>

(***************************************************************************)
(* Bounds of the model.                                                    *)
(***************************************************************************)
MaxLen == 3          \* short inputs: every byte sequence up to this length
MaxLongPrefix == 1   \* long inputs: a prefix up to this length, then a ramp
LongLen == 255       \* the length of the ramp of a long input

(***************************************************************************)
(* Go's integer operators on unsigned values of n bits.                    *)
(***************************************************************************)
RECURSIVE BitXorSlow(_, _, _)
BitXorSlow(a, b, n) ==
    IF n = 0 THEN 0
    ELSE ((a + b) % 2) + 2 * BitXorSlow(a \div 2, b \div 2, n - 1)

RECURSIVE BitAndSlow(_, _, _)
BitAndSlow(a, b, n) ==
    IF n = 0 THEN 0
    ELSE ((a % 2) * (b % 2)) + 2 * BitAndSlow(a \div 2, b \div 2, n - 1)

\* the two operators on bytes, tabulated once
XorByte == [x \in 0..255 |-> [y \in 0..255 |-> BitXorSlow(x, y, 8)]]
AndByte == [x \in 0..255 |-> [y \in 0..255 |-> BitAndSlow(x, y, 8)]]

\* a ^ b and a & b on n-bit values, n a multiple of 8: byte by byte
RECURSIVE BitXor(_, _, _)
BitXor(a, b, n) ==
    IF n = 0 THEN 0
    ELSE XorByte[a % 256][b % 256] + 256 * BitXor(a \div 256, b \div 256, n - 8)

RECURSIVE BitAnd(_, _, _)
BitAnd(a, b, n) ==
    IF n = 0 THEN 0
    ELSE AndByte[a % 256][b % 256] + 256 * BitAnd(a \div 256, b \div 256, n - 8)

\* TLC evaluates the arguments of an operator on first use; a loop that only
\* hands its accumulator on tests Evaluated(acc), which is always true, so
\* that the accumulator is a value before the next iteration starts
Evaluated(v) == v = v

\* x << 1 on a uint16: the bit shifted out of the top is lost
Shl16(x) == (x * 2) % 65536

\* byte(x): the conversion keeps the low 8 bits
byte(x) == x % 256

(***************************************************************************)
(* crc16, package copy: the register is masked after every round.          *)
(***************************************************************************)
crc16Round(c) ==
    LET stepped == IF BitAnd(c, \h8000, 16) # 0
                   THEN BitXor(Shl16(c), \h1021, 16)
                   ELSE Shl16(c)
    IN  BitAnd(stepped, \hFFFF, 16)

RECURSIVE crc16Rounds(_, _)
crc16Rounds(c, i) ==
    IF i < 8 THEN crc16Rounds(crc16Round(c), i + 1) ELSE c

\* the loop body for one byte b of the data
crc16Byte(c, b) == crc16Rounds(BitXor(c, b * 256, 16), 0)

\* the loop over d[lo..hi] in order; the range is split in halves, and the
\* register evaluated on entry, only to keep the depth of evaluation
\* logarithmic in the length of the data
RECURSIVE crc16Loop(_, _, _, _)
crc16Loop(c, d, lo, hi) ==
    IF lo > hi \/ ~Evaluated(c) THEN c
    ELSE IF lo = hi THEN crc16Byte(c, d[lo])
    ELSE LET mid == (lo + hi) \div 2
         IN  crc16Loop(crc16Loop(c, d, lo, mid), d, mid + 1, hi)

\* mutant: the textbook CCITT CRC, without the final XOR
crc16_NoFinalXor(d) == crc16Loop(\hFFFF, d, 1, Len(d))

crc16(d) == BitXor(crc16Loop(\hFFFF, d, 1, Len(d)), \hFFFF, 16)

(***************************************************************************)
(* crc16, daemon copy: polynomial and initial register are parameters and  *)
(* the register is a uint16 that is never masked explicitly.               *)
(***************************************************************************)
main_crc16Round(c, poly) ==
    IF BitAnd(c, \h8000, 16) # 0
    THEN BitXor(Shl16(c), poly, 16)
    ELSE Shl16(c)

RECURSIVE main_crc16Rounds(_, _, _)
main_crc16Rounds(c, poly, i) ==
    IF i < 8 THEN main_crc16Rounds(main_crc16Round(c, poly), poly, i + 1) ELSE c

main_crc16Byte(c, b, poly) == main_crc16Rounds(BitXor(c, b * 256, 16), poly, 0)

RECURSIVE main_crc16Loop(_, _, _, _, _)
main_crc16Loop(c, d, poly, lo, hi) ==
    IF lo > hi \/ ~Evaluated(c) THEN c
    ELSE IF lo = hi THEN main_crc16Byte(c, d[lo], poly)
    ELSE LET mid == (lo + hi) \div 2
         IN  main_crc16Loop(main_crc16Loop(c, d, poly, lo, mid), d, poly, mid + 1, hi)

main_crc16(d, poly, init) ==
    BitXor(main_crc16Loop(init, d, poly, 1, Len(d)), \hFFFF, 16)

(***************************************************************************)
(* byteStuff: both copies run the same loop over the input.                *)
(***************************************************************************)
\* mutant: the marker is an escape in front of the byte
byteStuffByte_EscapeBefore(acc, b) ==
    IF b = \hFE \/ b = \hFF THEN Append(Append(acc, \hFD), b) ELSE Append(acc, b)

\* the loop body for one byte b: copy it, then the marker after 0xFE or 0xFF
byteStuffByte(acc, b) ==
    LET copied == Append(acc, b)
    IN  IF b = \hFE \/ b = \hFF THEN Append(copied, \hFD) ELSE copied

RECURSIVE byteStuffLoop(_, _, _, _)
byteStuffLoop(acc, d, lo, hi) ==
    IF lo > hi \/ ~Evaluated(acc) THEN acc
    ELSE IF lo = hi THEN byteStuffByte(acc, d[lo])
    ELSE LET mid == (lo + hi) \div 2
         IN  byteStuffLoop(byteStuffLoop(acc, d, lo, mid), d, mid + 1, hi)

byteStuff(d) == byteStuffLoop(<<>>, d, 1, Len(d))

\* mutant: only 0xFF is followed by the marker
main_byteStuffByte_OnlyFF(stuffed, b) ==
    IF b = \hFF THEN Append(Append(stuffed, b), \hFD) ELSE Append(stuffed, b)

main_byteStuffByte(stuffed, b) ==
    LET copied == Append(stuffed, b)
    IN  IF b = \hFE \/ b = \hFF THEN Append(copied, \hFD) ELSE copied

RECURSIVE main_byteStuffLoop(_, _, _, _)
main_byteStuffLoop(stuffed, d, lo, hi) ==
    IF lo > hi \/ ~Evaluated(stuffed) THEN stuffed
    ELSE IF lo = hi THEN main_byteStuffByte(stuffed, d[lo])
    ELSE LET mid == (lo + hi) \div 2
         IN  main_byteStuffLoop(main_byteStuffLoop(stuffed, d, lo, mid), d, mid + 1, hi)

main_byteStuff(d) == main_byteStuffLoop(<<>>, d, 1, Len(d))

(***************************************************************************)
(* buildGroup: the MEC header in front of the data.                        *)
(***************************************************************************)
\* mutant: the boundary between one-byte and two-byte codes is off by one
buildGroup_OffByOne(m, d) ==
    IF m >= \hFF
    THEN <<byte(m \div 256), byte(m), \h00>> \o d
    ELSE <<byte(m), \h00, \h00>> \o d

buildGroup(m, d) ==
    IF m > \hFF
    THEN <<byte(m \div 256), byte(m), \h00>> \o d
    ELSE <<byte(m), \h00, \h00>> \o d

main_buildGroup(m, d) ==
    LET header == IF m > \hFF
                  THEN <<byte(BitAnd(m \div 256, \hFF, 16)), byte(BitAnd(m, \hFF, 16)), \h00>>
                  ELSE <<byte(m), \h00, \h00>>
    IN  header \o d

(***************************************************************************)
(* buildFrame: length header, CRC, stuffing, delimiters.                   *)
(***************************************************************************)
\* mutant: the message is cut to the length the header can state
buildFrame_Truncating(msg) ==
    LET header  == <<\h00, \h00, \h00, byte(Len(msg))>>
        payload == header \o SubSeq(msg, 1, byte(Len(msg)))
        c       == crc16(payload)
        full    == payload \o <<byte(c \div 256), byte(c)>>
        stuffed == byteStuff(full)
    IN  <<\hFE>> \o (stuffed \o <<\hFF>>)

buildFrame(msg) ==
    LET header  == <<\h00, \h00, \h00, byte(Len(msg))>>
        payload == header \o msg
        c       == crc16(payload)
        full    == payload \o <<byte(c \div 256), byte(c)>>
        stuffed == byteStuff(full)
    IN  <<\hFE>> \o (stuffed \o <<\hFF>>)

main_buildFrame(msg) ==
    LET header  == <<\h00, \h00, \h00, byte(Len(msg))>>
        payload == header \o msg
        c       == main_crc16(payload, \h1021, \hFFFF)
        full    == payload \o <<byte(c \div 256), byte(BitAnd(c, \hFF, 16))>>
        stuffed == main_byteStuff(full)
    IN  <<\hFE>> \o (stuffed \o <<\hFF>>)

(***************************************************************************)
(* The inputs of the codec functions.                                      *)
(***************************************************************************)
RECURSIVE SeqsUpTo(_, _)
SeqsUpTo(S, n) ==
    IF n = 0 THEN {<<>>}
    ELSE LET shorter == SeqsUpTo(S, n - 1)
         IN  shorter \cup {Append(s, b) : s \in shorter, b \in S}

\* bytes around the stuffing values, and an ordinary one
CodecBytes == {\h00, \h37, \hFD, \hFE, \hFF}

\* a ramp of n bytes 1, 2, ..., 255, 0, 1, ...: position-dependent content
Ramp(n) == [i \in 1..n |-> i % 256]

\* the frame tests of the package: <<group, expected frame>>
TestFrames ==
    { << <<\h02, \h00, \h00, \h44, \h45, \h4D, \h4F, \h20, \h20, \h20, \h20>>,
         <<\hFE, \h00, \h00, \h00, \h0B, \h02, \h00, \h00, \h44, \h45, \h4D, \h4F,
           \h20, \h20, \h20, \h20, \h91, \h80, \hFF>> >>,
      << <<\h03, \h00, \h00, \h02>>,
         <<\hFE, \h00, \h00, \h00, \h04, \h03, \h00, \h00, \h02, \hFC, \h59, \hFF>> >>,
      << <<\h01, \h00, \h00, \h13, \h37>>,
         <<\hFE, \h00, \h00, \h00, \h05, \h01, \h00, \h00, \h13, \h37, \h1E, \h49,
           \hFF>> >>,
      << <<\h07, \h00, \h00, \h0F>>,
         <<\hFE, \h00, \h00, \h00, \h04, \h07, \h00, \h00, \h0F, \hE7, \h05, \hFF>> >>,
      << <<\h05, \h00, \h00, \h01>>,
         <<\hFE, \h00, \h00, \h00, \h04, \h05, \h00, \h00, \h01, \hEB, \hA3, \hFF>> >>,
      << <<\h04, \h00, \h00, \h00>>,
         <<\hFE, \h00, \h00, \h00, \h04, \h04, \h00, \h00, \h00, \h8D, \h36, \hFF>> >> }

TestGroups == {t[1] : t \in TestFrames}

\* header ++ message of the PI test, the bytes its CRC 0x1E49 is computed over
PIHeaderAndMessage == <<\h00, \h00, \h00, \h05, \h01, \h00, \h00, \h13, \h37>>

ShortData == SeqsUpTo(CodecBytes, MaxLen)

LongData == {pre \o Ramp(LongLen) : pre \in SeqsUpTo({\h00, \hFF}, MaxLongPrefix)}

DataInputs == ShortData \cup TestGroups \cup {PIHeaderAndMessage} \cup LongData

\* one-byte and two-byte message element codes, the boundary between them included
MecInputs == {\h00, \h01, \h02, \h13, \hFF, \h100, \h0D19, \hFE37, \hFFFF}

(***************************************************************************)
(* The codec under call: a caller picks the input, then calls functions.   *)
(***************************************************************************)
\* New("", 9600, 0, 0x1337, 15, true, true, false, 0x00, false) of the tests
TestStation ==
    [pi |-> \h1337, pty |-> 15, ms |-> TRUE, tp |-> TRUE, ta |-> FALSE, di |-> \h00]

\* time.Date(2023, 8, 25, 12, 34, 56, 0, time.UTC) of the tests
TestTime ==
    [year |-> 2023, month |-> 8, day |-> 25, hour |-> 12, minute |-> 34, second |-> 56]

\* flags.di of examples/config.yml
TestFlags ==
    [stereo |-> TRUE, artificialHead |-> FALSE, compressed |-> TRUE, dynamicPty |-> FALSE]

\* the goroutines of the daemon, Run and the workers it starts, and the main
\* function of the example program of the package
Workers == {"psWorker", "rtWorker", "ctWorker"}
Procs == Workers \cup {"Run", "main"}

\* the station of the tests, and no daemon running
InitEnv ==
    /\ pi = TestStation.pi
    /\ pty = TestStation.pty
    /\ ms = TestStation.ms
    /\ tp = TestStation.tp
    /\ ta = TestStation.ta
    /\ di = TestStation.di
    /\ dt = TestTime
    /\ config = [af |-> FALSE, clock |-> FALSE, scroll |-> FALSE, delay |-> 0, flags |-> TestFlags]
    /\ pc = [p \in Procs |-> "none"]
    /\ stopChan = "open"
    /\ wg = 0
    /\ received = 0
    /\ locals = [w \in Workers |-> [k |-> 0, before |-> 0, after |-> 0]]
    /\ panicked = FALSE

\* the state of a UECPRDS value after New / NewUECPRDS, nothing sent yet
InitSend ==
    /\ afList = <<>>
    /\ text = <<>>
    /\ message = <<>>
    /\ err = "nil"
    /\ logged = "none"
    /\ port = "nil"
    /\ serialPort = "nil"
    /\ wire = <<>>
    /\ calls = <<>>
    /\ InitEnv

InitCodec ==
    /\ data \in DataInputs
    /\ mec = \h00
    /\ out = <<>>
    /\ crc = 0
    /\ op = "none"
    /\ InitSend

Call_crc16 ==
    /\ op = "none"
    /\ crc' = crc16(data)
    /\ op' = "crc16"
    /\ UNCHANGED <<data, mec, out, sendVars, envVars>>

Call_main_crc16 ==
    /\ op = "none"
    /\ crc' = main_crc16(data, \h1021, \hFFFF)
    /\ op' = "main_crc16"
    /\ UNCHANGED <<data, mec, out, sendVars, envVars>>

Call_byteStuff ==
    /\ op = "none"
    /\ out' = byteStuff(data)
    /\ op' = "byteStuff"
    /\ UNCHANGED <<data, mec, crc, sendVars, envVars>>

Call_main_byteStuff ==
    /\ op = "none"
    /\ out' = main_byteStuff(data)
    /\ op' = "main_byteStuff"
    /\ UNCHANGED <<data, mec, crc, sendVars, envVars>>

Call_buildGroup ==
    \E m \in MecInputs :
        /\ op = "none"
        /\ mec' = m
        /\ out' = buildGroup(m, data)
        /\ op' = "buildGroup"
        /\ UNCHANGED <<data, crc, sendVars, envVars>>

Call_main_buildGroup ==
    \E m \in MecInputs :
        /\ op = "none"
        /\ mec' = m
        /\ out' = main_buildGroup(m, data)
        /\ op' = "main_buildGroup"
        /\ UNCHANGED <<data, crc, sendVars, envVars>>

Call_buildFrame ==
    /\ op = "none"
    /\ out' = buildFrame(data)
    /\ op' = "buildFrame"
    /\ UNCHANGED <<data, mec, crc, sendVars, envVars>>

Call_main_buildFrame ==
    /\ op = "none"
    /\ out' = main_buildFrame(data)
    /\ op' = "main_buildFrame"
    /\ UNCHANGED <<data, mec, crc, sendVars, envVars>>

\* the call returns to the caller, who may call again on the same input
Return ==
    /\ op # "none"
    /\ mec' = \h00
    /\ out' = <<>>
    /\ crc' = 0
    /\ op' = "none"
    /\ UNCHANGED <<data, sendVars, envVars>>

NextCodec ==
    \/ Return
    \/ Call_crc16
    \/ Call_main_crc16
    \/ Call_byteStuff
    \/ Call_main_byteStuff
    \/ Call_buildGroup
    \/ Call_main_buildGroup
    \/ Call_buildFrame
    \/ Call_main_buildFrame

SpecCodec == InitCodec /\ [][NextCodec]_vars

(***************************************************************************)
(* The transport.  A send may fail at the open, the write or the flush of  *)
(* the serial line; outcome o names where it fails ("ok": nowhere).        *)
(***************************************************************************)
Outcomes == {"ok", "open", "write", "flush"}

\* where Open and Close of the package fail
OpenOutcomes == {"ok", "open"}
CloseOutcomes == {"ok", "close"}

\* a nil slice: buildAFPayload of the package returns it for "no payload"
Nil == <<>>

\* the line as an operation finds it: the two handles, the wire, the calls
\* made on it, and the error last returned and last logged
Line == [port |-> port, serialPort |-> serialPort, wire |-> wire, calls |-> calls,
         err |-> err, logged |-> logged]

\* package copy, Open: serial.Open is called only while the handle is nil
Open(u, o) ==
    IF u.port # "nil" THEN [u EXCEPT !.err = "nil"]
    ELSE IF o = "open"
    THEN [u EXCEPT !.calls = Append(@, "Open failed"), !.err = "open"]
    ELSE [u EXCEPT !.port = "open", !.calls = Append(@, "Open"), !.err = "nil"]

\* package copy, Close: the handle is nil afterwards, whatever port.Close returns
Close(u, o) ==
    IF u.port = "nil" THEN [u EXCEPT !.err = "nil"]
    ELSE IF o = "close"
    THEN [u EXCEPT !.port = "nil", !.calls = Append(@, "Close failed"), !.err = "close"]
    ELSE [u EXCEPT !.port = "nil", !.calls = Append(@, "Close"), !.err = "nil"]

\* package copy, sendGroup: the handle stays open; the result is the line
\* afterwards with the error returned
sendGroup(u, frame, o) ==
    LET opened == Open(u, o)
    IN  IF opened.err # "nil" THEN opened
        ELSE IF o = "write"
        THEN [opened EXCEPT !.calls = Append(@, "Write failed"), !.err = "write"]
        ELSE IF o = "flush"
        THEN [opened EXCEPT !.wire = Append(@, frame),
                            !.calls = @ \o <<"Write", "Flush failed">>, !.err = "flush"]
        ELSE [opened EXCEPT !.wire = Append(@, frame),
                            !.calls = @ \o <<"Write", "Flush", "Sleep">>, !.err = "nil"]

sendMessage(u, m, o) == [message |-> m] @@ sendGroup(u, buildFrame(m), o)

\* daemon copy: nothing is returned, failures are logged, a failed flush is
\* still followed by the delay, and the deferred closeSerialPort closes the
\* handle and leaves it nil whenever the open succeeded
main_sendMessage(u, m, o) ==
    IF u.serialPort = "nil" /\ o = "open"
    THEN [message |-> m]
         @@ [u EXCEPT !.calls = Append(@, "Open failed"), !.logged = "open"]
    ELSE LET opened == IF u.serialPort = "nil" THEN Append(u.calls, "Open") ELSE u.calls
         IN  IF o = "write"
             THEN [message |-> m]
                  @@ [u EXCEPT !.serialPort = "nil",
                               !.calls = opened \o <<"Write failed", "Close">>,
                               !.logged = "write"]
             ELSE IF o = "flush"
             THEN [message |-> m]
                  @@ [u EXCEPT !.serialPort = "nil",
                               !.wire = Append(@, main_buildFrame(m)),
                               !.calls = opened \o <<"Write", "Flush failed", "Sleep", "Close">>,
                               !.logged = "flush"]
             ELSE [message |-> m]
                  @@ [u EXCEPT !.serialPort = "nil",
                               !.wire = Append(@, main_buildFrame(m)),
                               !.calls = opened \o <<"Write", "Flush", "Sleep", "Close">>]

\* the operation returns r: the line it leaves, its last message, the error it
\* returned and the failure it logged
Returns(r) ==
    /\ port' = r.port
    /\ serialPort' = r.serialPort
    /\ wire' = r.wire
    /\ calls' = r.calls
    /\ message' = r.message
    /\ err' = r.err
    /\ logged' = r.logged

(***************************************************************************)
(* Alternative frequencies.  A frequency (a float64 in MHz) is modelled as *)
(* the whole number of hundredths of a MHz it stands for: 87.6 is 8760.    *)
(* int(x + 0.5) of a value x >= 0 given in tenths is (x10 + 5) div 10; the *)
(* inputs leave out the ties (hundredths ending in 5), where the result    *)
(* rests on the rounding of the float64 arithmetic.                        *)
(***************************************************************************)
encodeAF(freq) ==
    IF freq < 8760 \/ freq > 10790
    THEN [code |-> 0, err |-> "invalid AF"]
    ELSE LET code == ((freq - 8750) + 5) \div 10
         IN  IF code < 1 \/ code > 204
             THEN [code |-> 0, err |-> "invalid AF"]
             ELSE [code |-> byte(code), err |-> "nil"]

\* the loop of buildAFPayload over the list: failed entries are skipped
RECURSIVE encodeList(_, _, _)
encodeList(enc, list, k) ==
    IF k > Len(list) THEN enc
    ELSE LET r == encodeAF(list[k])
         IN  encodeList(IF r.err # "nil" THEN enc ELSE Append(enc, r.code), list, k + 1)

\* for len(p) < n { p = append(p, 0x00) }
PadTo(p, n) == IF Len(p) < n THEN p \o [i \in 1..(n - Len(p)) |-> \h00] ELSE p

\* mutant: the pad loop of the 2..3 layout is missing
buildAFPayload_NoPad(list) ==
    LET enc == encodeList(<<>>, list, 1)
        l   == Len(enc)
    IN  IF l = 1 THEN <<\h05, \h00, \h00, \hE1, enc[1], \h00, \h60>>
        ELSE IF l >= 2 /\ l <= 3
        THEN LET p == <<\h07, \h00, \h00, byte(\hE0 + l)>> \o enc
             IN  IF l = 2 THEN p \o <<\h00, \hD3>> ELSE p \o <<\h00, \hEE>>
        ELSE Nil

\* mutant: the layout is chosen by the length of the input list
buildAFPayload_ByInputLength(list) ==
    LET enc == encodeList(<<>>, list, 1)
        l   == Len(list)
    IN  IF l = 1 /\ Len(enc) >= 1 THEN <<\h05, \h00, \h00, \hE1, enc[1], \h00, \h60>>
        ELSE IF l >= 2 /\ l <= 3
        THEN LET p == PadTo(<<\h07, \h00, \h00, byte(\hE0 + l)>> \o enc, 4 + 3)
             IN  IF l = 2 THEN p \o <<\h00, \hD3>> ELSE p \o <<\h00, \hEE>>
        ELSE IF l >= 4 /\ l <= 11
        THEN LET p    == <<\h0F, \h00, \h00, \hEB>> \o enc
                 enc2 == PadTo(enc, 11)
             IN  (p \o SubSeq(enc2, Len(enc2) - 11 + 1, Len(enc2))) \o <<\h00, \hAC>>
        ELSE Nil

buildAFPayload(list) ==
    LET enc == encodeList(<<>>, list, 1)
        l   == Len(enc)
    IN  IF l = 1 THEN <<\h05, \h00, \h00, \hE1, enc[1], \h00, \h60>>
        ELSE IF l >= 2 /\ l <= 3
        THEN LET p == PadTo(<<\h07, \h00, \h00, byte(\hE0 + l)>> \o enc, 4 + 3)
             IN  IF l = 2 THEN p \o <<\h00, \hD3>> ELSE p \o <<\h00, \hEE>>
        ELSE IF l >= 4 /\ l <= 11
        THEN LET p    == <<\h0F, \h00, \h00, \hEB>> \o enc
                 \* enc is padded to 11 entries, and its last 11 are appended
                 \* to p, which already holds the codes
                 enc2 == PadTo(enc, 11)
             IN  (p \o SubSeq(enc2, Len(enc2) - 11 + 1, Len(enc2))) \o <<\h00, \hAC>>
        ELSE Nil

\* daemon copy
main_round(f10) == (f10 + 5) \div 10

main_encodeAF(freqMHz) ==
    IF freqMHz < 8760 \/ freqMHz > 10790
    THEN [code |-> 0, err |-> "outside valid range"]
    ELSE LET afCode == main_round(freqMHz - 8750)
         IN  IF afCode < 1 \/ afCode > 204
             THEN [code |-> 0, err |-> "AF code invalid"]
             ELSE [code |-> byte(afCode), err |-> "nil"]

RECURSIVE main_encodeList(_, _, _)
main_encodeList(encodedAFs, list, k) ==
    IF k > Len(list) THEN encodedAFs
    ELSE LET r == main_encodeAF(list[k])
         IN  main_encodeList(IF r.err # "nil" THEN encodedAFs
                             ELSE Append(encodedAFs, r.code),
                             list, k + 1)

buildAFMethod05(encodedAFs) ==
    (<<\h05, \h00, \h00, \hE1>> \o <<encodedAFs[1]>>) \o <<\h00, \h60>>

buildAFMethod07(encodedAFs) ==
    LET payload == PadTo((<<\h07, \h00, \h00>> \o <<byte(\hE0 + Len(encodedAFs))>>)
                         \o encodedAFs, 7)
    IN  IF Len(encodedAFs) = 2 THEN payload \o <<\h00, \hD3>>
        ELSE payload \o <<\h00, \hEE>>

buildAFMethod0F(encodedAFs) ==
    PadTo(<<\h0F, \h00, \h00, \hEB>> \o encodedAFs, 4 + 11) \o <<\h00, \hAC>>

main_buildAFPayload(list) ==
    LET encodedAFs == main_encodeList(<<>>, list, 1)
    IN  IF Len(encodedAFs) = 1
        THEN [payload |-> buildAFMethod05(encodedAFs), err |-> "nil"]
        ELSE IF Len(encodedAFs) >= 2 /\ Len(encodedAFs) <= 3
        THEN [payload |-> buildAFMethod07(encodedAFs), err |-> "nil"]
        ELSE IF Len(encodedAFs) >= 4 /\ Len(encodedAFs) <= 11
        THEN [payload |-> buildAFMethod0F(encodedAFs), err |-> "nil"]
        ELSE [payload |-> Nil, err |-> "invalid AF list length"]

(***************************************************************************)
(* The inputs of the AF functions: a run of distinct valid frequencies     *)
(* from 92.4 MHz up in steps of 0.1 MHz, with up to MaxAFExtra entries     *)
(* from around the two ends of the valid range before and after it.        *)
(***************************************************************************)
MaxAFExtra == 1      \* entries before and after the run, together
MaxAFRun == 12       \* the longest run of valid frequencies

AFExtras == {8759, 8760, 10790, 10791}

AFRun(r) == [i \in 1..r |-> 9240 + 10 * (i - 1)]

\* <<pre, post>>: the entries before and after the run
AFExtraPairs ==
    {pp \in SeqsUpTo(AFExtras, MaxAFExtra) \X SeqsUpTo(AFExtras, MaxAFExtra) :
        Len(pp[1]) + Len(pp[2]) <= MaxAFExtra}

AFInputs == {(pp[1] \o AFRun(r)) \o pp[2] : pp \in AFExtraPairs, r \in 0..MaxAFRun}

\* the operation returns; the caller's record of it is cleared, the handles stay
ReturnSend ==
    /\ op # "none"
    /\ op' = "none"
    /\ out' = <<>>
    /\ message' = <<>>
    /\ err' = "nil"
    /\ logged' = "none"
    /\ wire' = <<>>
    /\ calls' = <<>>
    /\ UNCHANGED <<data, mec, crc, afList, text, port, serialPort, envVars>>

(***************************************************************************)
(* The AF functions under call.                                            *)
(***************************************************************************)
InitAF ==
    /\ data = <<>>
    /\ mec = \h00
    /\ out = <<>>
    /\ crc = 0
    /\ op = "none"
    /\ afList \in AFInputs
    /\ text = <<>>
    /\ message = <<>>
    /\ err = "nil"
    /\ logged = "none"
    /\ port = "nil"
    /\ serialPort = "nil"
    /\ wire = <<>>
    /\ calls = <<>>
    /\ InitEnv

Call_buildAFPayload ==
    /\ op = "none"
    /\ out' = buildAFPayload(afList)
    /\ op' = "buildAFPayload"
    /\ UNCHANGED <<data, mec, crc, sendVars, envVars>>

Call_main_buildAFPayload ==
    /\ op = "none"
    /\ LET r == main_buildAFPayload(afList)
       IN  /\ out' = r.payload
           /\ err' = r.err
    /\ op' = "main_buildAFPayload"
    /\ UNCHANGED <<data, mec, crc, afList, text, message, logged, port, serialPort, wire, calls, envVars>>

SendAF ==
    /\ op = "none"
    /\ op' = "SendAF"
    /\ LET payload == buildAFPayload(afList)
       IN  IF payload = Nil
           THEN /\ err' = "nil"
                /\ UNCHANGED <<message, logged, port, serialPort, wire, calls>>
           ELSE \E o \in Outcomes : Returns(sendMessage(Line, buildGroup(\h13, payload), o))
    /\ UNCHANGED <<codecVars, afList, text, envVars>>

main_SendAF ==
    /\ op = "none"
    /\ op' = "main_SendAF"
    /\ LET r == main_buildAFPayload(afList)
       IN  IF r.err # "nil"
           THEN /\ logged' = "af payload"
                /\ UNCHANGED <<message, err, port, serialPort, wire, calls>>
           ELSE \E o \in Outcomes : Returns(main_sendMessage(Line, main_buildGroup(\h13, r.payload), o))
    /\ UNCHANGED <<codecVars, afList, text, envVars>>

NextAF ==
    \/ ReturnSend
    \/ Call_buildAFPayload
    \/ Call_main_buildAFPayload
    \/ SendAF
    \/ main_SendAF

SpecAF == InitAF /\ [][NextAF]_vars

(***************************************************************************)
(* SendPS and SendRT.  A text is the sequence of the bytes of the string.  *)
(***************************************************************************)
\* for len(t) < n { t = append(t, ' ') }
PadSpaces(t, n) == IF Len(t) < n THEN t \o [i \in 1..(n - Len(t)) |-> \h20] ELSE t

\* mutant: a text that is too long keeps its last 8 bytes
SendPS_ps_KeepsTail(t) ==
    PadSpaces(IF Len(t) > 8 THEN SubSeq(t, Len(t) - 7, Len(t)) ELSE t, 8)

\* the bytes ps that SendPS hands to buildGroup
SendPS_ps(t) == PadSpaces(IF Len(t) > 8 THEN SubSeq(t, 1, 8) ELSE t, 8)

\* the payload that SendRT hands to buildGroup
SendRT_payload(t) ==
    LET rt == PadSpaces(IF Len(t) > 64 THEN SubSeq(t, 1, 64) ELSE t, 64)
    IN  <<\h41, \h00>> \o rt

main_SendPS_ps(t) == PadSpaces(IF Len(t) > 8 THEN SubSeq(t, 1, 8) ELSE t, 8)

main_SendRT_payload(t) ==
    LET rtData == PadSpaces(IF Len(t) > 64 THEN SubSeq(t, 1, 64) ELSE t, 64)
    IN  <<\h41, \h00>> \o rtData

(***************************************************************************)
(* The inputs of SendPS and SendRT: a prefix of up to MaxTextPrefix bytes, *)
(* then a ramp of up to MaxTextRamp bytes that differ from place to place. *)
(***************************************************************************)
MaxTextPrefix == 1
MaxTextRamp == 66

TextBytes == {\h20, \h41, \hFF}

TextRamp(n) == [i \in 1..n |-> \h30 + (i % 75)]

\* the lengths of the ramp: those around the two field widths, 8 and 64
TextLens == {n \in 0..MaxTextRamp : n <= 10 \/ n >= 62}

TextInputs ==
    {pre \o TextRamp(n) : pre \in SeqsUpTo(TextBytes, MaxTextPrefix), n \in TextLens}

InitText ==
    /\ data = <<>>
    /\ mec = \h00
    /\ out = <<>>
    /\ crc = 0
    /\ op = "none"
    /\ afList = <<>>
    /\ text \in TextInputs
    /\ message = <<>>
    /\ err = "nil"
    /\ logged = "none"
    /\ port = "nil"
    /\ serialPort = "nil"
    /\ wire = <<>>
    /\ calls = <<>>
    /\ InitEnv

SendPS ==
    /\ op = "none"
    /\ op' = "SendPS"
    /\ \E o \in Outcomes : Returns(sendMessage(Line, buildGroup(\h02, SendPS_ps(text)), o))
    /\ UNCHANGED <<codecVars, afList, text, envVars>>

SendRT ==
    /\ op = "none"
    /\ op' = "SendRT"
    /\ \E o \in Outcomes : Returns(sendMessage(Line, buildGroup(\h0A, SendRT_payload(text)), o))
    /\ UNCHANGED <<codecVars, afList, text, envVars>>

main_SendPS ==
    /\ op = "none"
    /\ op' = "main_SendPS"
    /\ \E o \in Outcomes : Returns(main_sendMessage(Line, main_buildGroup(\h02, main_SendPS_ps(text)), o))
    /\ UNCHANGED <<codecVars, afList, text, envVars>>

main_SendRT ==
    /\ op = "none"
    /\ op' = "main_SendRT"
    /\ \E o \in Outcomes : Returns(main_sendMessage(Line, main_buildGroup(\h0A, main_SendRT_payload(text)), o))
    /\ UNCHANGED <<codecVars, afList, text, envVars>>

NextText ==
    \/ ReturnSend
    \/ SendPS
    \/ SendRT
    \/ main_SendPS
    \/ main_SendRT

SpecText == InitText /\ [][NextText]_vars

(***************************************************************************)
(* The station: the static fields, the clock, SendStaticInit, Open, Close. *)
(***************************************************************************)
\* a | b on n-bit values
BitOr(a, b, n) == BitXor(a, b, n) + BitAnd(a, b, n)

\* mutant: TP and TA change places
SendTPTA_message_Swapped ==
    LET val0 == 0
        val1 == IF tp THEN BitOr(val0, \h01, 8) ELSE val0
        val2 == IF ta THEN BitOr(val1, \h02, 8) ELSE val1
    IN  buildGroup(\h03, <<val2>>)

\* package copy: the messages the senders hand to sendMessage
SendTPTA_message ==
    LET val0 == 0
        val1 == IF tp THEN BitOr(val0, \h02, 8) ELSE val0
        val2 == IF ta THEN BitOr(val1, \h01, 8) ELSE val1
    IN  buildGroup(\h03, <<val2>>)

SendPI_message == buildGroup(\h01, <<byte(pi \div 256), byte(pi)>>)

SendPTY_message == buildGroup(\h07, <<byte(pty)>>)

SendMS_message == buildGroup(\h05, <<IF ms THEN 1 ELSE 0>>)

SendDI_message == buildGroup(\h04, <<di>>)

\* mutant: the clock message of the package without the year and the month
SendCTProfline_message_DayFirst ==
    buildGroup(\h0D19, <<byte(dt.day), byte(dt.hour), byte(dt.minute), byte(dt.second),
                         \h00, \h00>>)

SendCTProfline_message ==
    buildGroup(\h0D19, <<byte(dt.year % 100), byte(dt.month), byte(dt.day), byte(dt.hour),
                         byte(dt.minute), byte(dt.second), \h00, \h00>>)

\* daemon copy
main_boolToInt(b) == IF b THEN 1 ELSE 0

\* NewUECPRDS: the decoder information byte from the four flags of the config
main_NewUECPRDS_di(flags) ==
    byte(BitOr(BitOr(BitOr(main_boolToInt(flags.stereo) * 1,
                           main_boolToInt(flags.artificialHead) * 2, 8),
                     main_boolToInt(flags.compressed) * 4, 8),
               main_boolToInt(flags.dynamicPty) * 8, 8))

main_SendTPTA_message ==
    main_buildGroup(\h03, <<byte(BitOr(main_boolToInt(tp) * 2, main_boolToInt(ta), 8))>>)

\* binary.BigEndian.PutUint16(piBytes, uint16(u.pi))
main_SendPI_message ==
    LET v == pi % 65536
    IN  main_buildGroup(\h01, <<byte(v \div 256), byte(v)>>)

main_SendPTY_message == main_buildGroup(\h07, <<byte(pty)>>)

main_SendMS_message == main_buildGroup(\h05, <<byte(main_boolToInt(ms))>>)

main_SendDI_message == main_buildGroup(\h04, <<main_NewUECPRDS_di(config.flags)>>)

\* mutant: the clock message of the daemon built by buildGroup
main_SendCTProfline_message_ByBuildGroup ==
    main_buildGroup(\h0D19, <<byte(dt.day), byte(dt.hour), byte(dt.minute), byte(dt.second),
                              \h00, \h00>>)

\* built by hand: the byte after the MEC is 0x06
main_SendCTProfline_message ==
    <<\h0D, \h19, \h06, byte(dt.day), byte(dt.hour), byte(dt.minute), byte(dt.second),
      \h00, \h00>>

\* the five sends of SendStaticInit, in the order of the calls
StaticMessages ==
    <<SendTPTA_message, SendPI_message, SendPTY_message, SendMS_message, SendDI_message>>

\* mutant: the daemon sends PI before TP/TA
main_StaticMessages_PIFirst ==
    <<main_SendPI_message, main_SendTPTA_message, main_SendPTY_message,
      main_SendMS_message, main_SendDI_message>>

main_StaticMessages ==
    <<main_SendTPTA_message, main_SendPI_message, main_SendPTY_message,
      main_SendMS_message, main_SendDI_message>>

\* the outcomes of the five sends: at most MaxFails of them fail
MaxFails == 1

StaticOutcomes ==
    {os \in [1..5 -> Outcomes] : Cardinality({i \in 1..5 : os[i] # "ok"}) <= MaxFails}

\* mutant: every field is sent, whatever the sends before it returned
RECURSIVE SendStaticInit_sends_KeepsGoing(_, _, _)
SendStaticInit_sends_KeepsGoing(u, k, os) ==
    IF k > 5 THEN u
    ELSE SendStaticInit_sends_KeepsGoing(sendMessage(u, StaticMessages[k], os[k]), k + 1, os)

\* package copy: the sends from the k-th on; the first error is returned
RECURSIVE SendStaticInit_from(_, _, _)
SendStaticInit_from(u, k, os) ==
    IF k > 5 THEN u
    ELSE LET r == sendMessage(u, StaticMessages[k], os[k])
         IN  IF r.err # "nil" THEN r ELSE SendStaticInit_from(r, k + 1, os)

SendStaticInit_sends(u, k, os) == SendStaticInit_from(u, k, os)

\* daemon copy: the five sends, each of them whatever the others did
RECURSIVE main_SendStaticInit_sends(_, _, _)
main_SendStaticInit_sends(u, k, os) ==
    IF k > 5 THEN u
    ELSE main_SendStaticInit_sends(main_sendMessage(u, main_StaticMessages[k], os[k]),
                                   k + 1, os)

(***************************************************************************)
(* The inputs of the station: the station of the tests with one of its     *)
(* fields, the flags of the daemon's config, or the timestamp replaced.    *)
(***************************************************************************)
PiInputs == {-1, \h00, \h1337, \hFDFE, \hFFFF, \h12345}
PtyInputs == {0, 15, 31, 256 + 10}
DiInputs == {\h00, \h0F, \hFE, \hFF}

Stations ==
    {[TestStation EXCEPT !.pi = x] : x \in PiInputs}
    \cup {[TestStation EXCEPT !.pty = x] : x \in PtyInputs}
    \cup {[TestStation EXCEPT !.di = x] : x \in DiInputs}
    \cup {[TestStation EXCEPT !.ms = x] : x \in BOOLEAN}
    \cup {[TestStation EXCEPT !.tp = x[1], !.ta = x[2]] : x \in BOOLEAN \X BOOLEAN}

FlagInputs ==
    [stereo : BOOLEAN, artificialHead : BOOLEAN, compressed : BOOLEAN, dynamicPty : BOOLEAN]

TimeInputs ==
    {TestTime,
     [year |-> 2000, month |-> 1, day |-> 1, hour |-> 0, minute |-> 0, second |-> 0],
     [year |-> 1999, month |-> 12, day |-> 31, hour |-> 23, minute |-> 59, second |-> 59],
     [year |-> 2024, month |-> 2, day |-> 29, hour |-> 6, minute |-> 0, second |-> 30],
     [year |-> 2100, month |-> 10, day |-> 6, hour |-> 13, minute |-> 25, second |-> 6]}

StationInputs ==
    {[station |-> x, flags |-> TestFlags, dt |-> TestTime] : x \in Stations}
    \cup {[station |-> TestStation, flags |-> x, dt |-> TestTime] : x \in FlagInputs}
    \cup {[station |-> TestStation, flags |-> TestFlags, dt |-> x] : x \in TimeInputs}

\* "DEMO", the text of the example, and 92.4 MHz, the frequency of the tests
DemoText == <<\h44, \h45, \h4D, \h4F>>
DemoAF == <<9240>>

InitStation ==
    /\ data = <<>>
    /\ mec = \h00
    /\ out = <<>>
    /\ crc = 0
    /\ op = "none"
    /\ afList = DemoAF
    /\ text = DemoText
    /\ message = <<>>
    /\ err = "nil"
    /\ logged = "none"
    /\ port = "nil"
    /\ serialPort = "nil"
    /\ wire = <<>>
    /\ calls = <<>>
    /\ \E x \in StationInputs :
          /\ pi = x.station.pi
          /\ pty = x.station.pty
          /\ ms = x.station.ms
          /\ tp = x.station.tp
          /\ ta = x.station.ta
          /\ di = x.station.di
          /\ dt = x.dt
          /\ config = [af |-> FALSE, clock |-> FALSE, scroll |-> FALSE, delay |-> 0, flags |-> x.flags]
    /\ pc = [p \in Procs |-> "none"]
    /\ stopChan = "open"
    /\ wg = 0
    /\ received = 0
    /\ locals = [w \in Workers |-> [k |-> 0, before |-> 0, after |-> 0]]
    /\ panicked = FALSE

\* mutant: an operation that resets the station when it returns
Sends_ResetsStation(name, r) ==
    /\ op = "none"
    /\ op' = name
    /\ Returns(r)
    /\ pi' = 0
    /\ pty' = 0
    /\ UNCHANGED <<codecVars, afList, text, ms, tp, ta, di, dt, daemonVars>>

\* the operation called name runs and leaves the line and the results r; the
\* station and the arguments of the caller are not assigned to
Sends(name, r) ==
    /\ op = "none"
    /\ op' = name
    /\ Returns(r)
    /\ UNCHANGED <<codecVars, afList, text, envVars>>

Call_Open == \E o \in OpenOutcomes : Sends("Open", [message |-> message] @@ Open(Line, o))

Call_Close == \E o \in CloseOutcomes : Sends("Close", [message |-> message] @@ Close(Line, o))

SendStaticInit ==
    \E os \in StaticOutcomes : Sends("SendStaticInit", SendStaticInit_sends(Line, 1, os))

SendTPTA == \E o \in Outcomes : Sends("SendTPTA", sendMessage(Line, SendTPTA_message, o))

SendPI == \E o \in Outcomes : Sends("SendPI", sendMessage(Line, SendPI_message, o))

SendPTY == \E o \in Outcomes : Sends("SendPTY", sendMessage(Line, SendPTY_message, o))

SendMS == \E o \in Outcomes : Sends("SendMS", sendMessage(Line, SendMS_message, o))

SendDI == \E o \in Outcomes : Sends("SendDI", sendMessage(Line, SendDI_message, o))

SendCTProfline ==
    \E o \in Outcomes : Sends("SendCTProfline", sendMessage(Line, SendCTProfline_message, o))

main_SendStaticInit ==
    \E os \in StaticOutcomes :
        Sends("main_SendStaticInit", main_SendStaticInit_sends(Line, 1, os))

main_SendTPTA ==
    \E o \in Outcomes : Sends("main_SendTPTA", main_sendMessage(Line, main_SendTPTA_message, o))

main_SendPI ==
    \E o \in Outcomes : Sends("main_SendPI", main_sendMessage(Line, main_SendPI_message, o))

main_SendPTY ==
    \E o \in Outcomes : Sends("main_SendPTY", main_sendMessage(Line, main_SendPTY_message, o))

main_SendMS ==
    \E o \in Outcomes : Sends("main_SendMS", main_sendMessage(Line, main_SendMS_message, o))

main_SendDI ==
    \E o \in Outcomes : Sends("main_SendDI", main_sendMessage(Line, main_SendDI_message, o))

main_SendCTProfline ==
    \E o \in Outcomes :
        Sends("main_SendCTProfline", main_sendMessage(Line, main_SendCTProfline_message, o))

NextStation ==
    \/ ReturnSend
    \/ Call_Open
    \/ Call_Close
    \/ SendStaticInit
    \/ SendTPTA
    \/ SendPI
    \/ SendPTY
    \/ SendMS
    \/ SendDI
    \/ SendCTProfline
    \/ SendPS
    \/ SendRT
    \/ SendAF
    \/ main_SendStaticInit
    \/ main_SendTPTA
    \/ main_SendPI
    \/ main_SendPTY
    \/ main_SendMS
    \/ main_SendDI
    \/ main_SendCTProfline
    \/ main_SendPS
    \/ main_SendRT
    \/ main_SendAF

SpecStation == InitStation /\ [][NextStation]_vars

(***************************************************************************)
(* The programs: the daemon (src/main.go), whose Run initialises the       *)
(* encoder and starts the PS, RT and clock workers as goroutines on one    *)
(* shared UECPRDS value, and the example program of the package.  A step   *)
(* of a worker is one select, or one statement of sendMessage,             *)
(* openSerialPort or closeSerialPort.  Nothing orders the workers' reads   *)
(* and writes of the shared handle serialPort, which is "nil", "open", or  *)
(* "closed" (not nil, its port closed); a method called on a nil handle    *)
(* panics and ends the process.                                            *)
(***************************************************************************)
\* padRight(s, width)
main_padRight(s, width) ==
    IF Len(s) >= width THEN SubSeq(s, 1, width)
    ELSE s \o [i \in 1..(width - Len(s)) |-> \h20]

\* strings.Join(names, " ")
RECURSIVE main_Join(_, _)
main_Join(names, k) ==
    IF k > Len(names) THEN <<>>
    ELSE IF k = Len(names) THEN names[k]
    ELSE names[k] \o <<\h20>> \o main_Join(names, k + 1)

\* generatePSScroll; the names have no leading, trailing or double spaces,
\* so TrimSpace and ReplaceAll leave the joined text as it is
main_generatePSScroll(names, scrollEnabled, scrollBidirectional) ==
    LET t == main_Join(names, 1)
        width == 8
    IN  IF ~scrollEnabled \/ Len(t) <= width THEN <<>>
        ELSE IF ~scrollBidirectional
        THEN LET d == t \o <<\h20>> \o SubSeq(t, 1, width - 1)
             IN  [i \in 1..(Len(d) - width + 1) |-> SubSeq(d, i, i + width - 1)]
        ELSE [i \in 1..(Len(t) - width + 1) |-> SubSeq(t, i, i + width - 1)]
             \o [j \in 1..(Len(t) - width) |->
                    SubSeq(t, Len(t) - width - j + 1, Len(t) - j)]

\* display.ps.texts of the configuration: "SFM", "RDS", "DEMO"
PsTexts == <<<<\h53, \h46, \h4D>>, <<\h52, \h44, \h53>>, DemoText>>

\* "RADIO TEXT", the text rtWorker sends when the configuration names no
\* file and no messages
RadioText == <<\h52, \h41, \h44, \h49, \h4F, \h20, \h54, \h45, \h58, \h54>>

\* d.scrollFrames with display.ps.scroll_enabled, one direction
ScrollFrames == main_generatePSScroll(PsTexts, TRUE, FALSE)

\* the frames SendPS and SendRT of the daemon hand to Write
main_SendPS_frame(t) == main_buildFrame(main_buildGroup(\h02, main_SendPS_ps(t)))

main_ScrollPSFrames ==
    [k \in 1..Len(ScrollFrames) |-> main_SendPS_frame(main_padRight(ScrollFrames[k], 8))]

main_PSFrames ==
    [k \in 1..Len(PsTexts) |-> main_SendPS_frame(main_padRight(PsTexts[k], 8))]

main_RTFrame ==
    main_buildFrame(main_buildGroup(\h0A, main_SendRT_payload(main_padRight(RadioText, 64))))

\* a run is followed until its workers have begun MaxSends sends, all workers
\* together, or until its first failure is logged
MaxSends == 3

SendsBegun ==
    LET n(w) == locals[w].before + locals[w].after
    IN  n("psWorker") + n("rtWorker") + n("ctWorker")

\* len(d.scrollFrames) > 0
Scrolling == Len(main_generatePSScroll(PsTexts, config.scroll, FALSE)) > 0

\* the frame worker w writes: psWorker the scroll frame of idx before its
\* increment (k is idx) or the k-th text, rtWorker the radio text, ctWorker
\* the clock
main_WorkerFrame(w) ==
    IF w = "psWorker"
    THEN IF Scrolling
         THEN main_ScrollPSFrames[((locals[w].k - 1) % Len(ScrollFrames)) + 1]
         ELSE main_PSFrames[locals[w].k]
    ELSE IF w = "rtWorker" THEN main_RTFrame
    ELSE main_buildFrame(main_SendCTProfline_message)

\* the configurations of the daemon: that of examples/config.yml (AF and
\* clock enabled, the PS scrolling, intervals above zero), the zero values a
\* file without these keys leaves, and two between them
DaemonConfigs ==
    {[af |-> TRUE, clock |-> TRUE, scroll |-> TRUE, delay |-> 1, flags |-> TestFlags],
     [af |-> TRUE, clock |-> FALSE, scroll |-> FALSE, delay |-> 1, flags |-> TestFlags],
     [af |-> FALSE, clock |-> FALSE, scroll |-> TRUE, delay |-> 0, flags |-> TestFlags],
     [af |-> FALSE, clock |-> FALSE, scroll |-> FALSE, delay |-> 0, flags |-> TestFlags]}

\* a worker may go on to a send
MaySend == SendsBegun < MaxSends /\ logged = "none"

\* which program runs
Programs == {"daemon", "example"}

InitPrograms ==
    /\ data = <<>>
    /\ mec = \h00
    /\ out = <<>>
    /\ crc = 0
    /\ op = "none"
    /\ text = DemoText
    /\ message = <<>>
    /\ err = "nil"
    /\ logged = "none"
    /\ port = "nil"
    /\ serialPort = "nil"
    /\ wire = <<>>
    /\ calls = <<>>
    /\ pi = TestStation.pi
    /\ pty = TestStation.pty
    /\ ms = TestStation.ms
    /\ tp = TestStation.tp
    /\ ta = TestStation.ta
    /\ di = TestStation.di
    /\ dt = TestTime
    /\ \E program \in Programs :
          IF program = "daemon"
          THEN /\ config \in DaemonConfigs
               /\ afList = DemoAF
               /\ pc = [p \in Procs |-> IF p = "Run" THEN "SendStaticInit" ELSE "none"]
          ELSE /\ config = [af |-> FALSE, clock |-> FALSE, scroll |-> FALSE, delay |-> 0,
                            flags |-> TestFlags]
               /\ afList = <<>>
               /\ pc = [p \in Procs |-> IF p = "main" THEN "SendStaticInit" ELSE "none"]
    /\ stopChan = "open"
    /\ wg = 0
    /\ received = 0
    /\ locals = [w \in Workers |-> [k |-> 0, before |-> 0, after |-> 0]]
    /\ panicked = FALSE

\* the daemon's variables other than the locations of its goroutines
daemonVarsButPc == <<config, stopChan, wg, received, locals, panicked>>

\* the outcomes a call on the line may have: it fails while nothing has
\* failed yet
Faults(S) == IF logged = "none" THEN S ELSE {"ok"}

\* goroutine p goes to location loc
Goto(p, loc) == pc' = [pc EXCEPT ![p] = loc]

\* Run: d.rds.SendStaticInit(), before any goroutine is started
Run_SendStaticInit ==
    /\ ~panicked
    /\ pc["Run"] = "SendStaticInit"
    /\ \E os \in StaticOutcomes : Returns(main_SendStaticInit_sends(Line, 1, os))
    /\ Goto("Run", "SendAF")
    /\ UNCHANGED <<codecVars, op, afList, text, stationVars, config, stopChan, wg, received,
                   locals, panicked>>

\* Run: if d.config.Af.Enable { d.rds.SendAF(...) }
Run_SendAF ==
    /\ ~panicked
    /\ pc["Run"] = "SendAF"
    /\ IF config.af
       THEN LET r == main_buildAFPayload(afList)
            IN  IF r.err # "nil"
                THEN /\ logged' = "af payload"
                     /\ UNCHANGED <<message, err, port, serialPort, wire, calls>>
                ELSE \E o \in Faults(Outcomes) :
                        Returns(main_sendMessage(Line, main_buildGroup(\h13, r.payload), o))
       ELSE UNCHANGED <<message, err, logged, port, serialPort, wire, calls>>
    /\ Goto("Run", "go")
    /\ UNCHANGED <<codecVars, op, afList, text, stationVars, config, stopChan, wg, received,
                   locals, panicked>>

\* Run: the go statements; ctWorker is started only with the clock enabled
Run_go ==
    /\ ~panicked
    /\ pc["Run"] = "go"
    /\ pc' = [p \in Procs |->
                 IF p = "Run" THEN "signal"
                 ELSE IF p \in Workers /\ (p # "ctWorker" \/ config.clock) THEN "select"
                 ELSE pc[p]]
    /\ UNCHANGED <<codecVars, op, sendVars, stationVars, config, stopChan, wg, received,
                   locals, panicked>>

\* Run: a signal arrives on sigChan and Run closes stopChan
Run_close ==
    /\ ~panicked
    /\ pc["Run"] = "signal"
    /\ stopChan' = "closed"
    /\ Goto("Run", "collect")
    /\ UNCHANGED <<codecVars, op, sendVars, stationVars, config, wg, received, locals, panicked>>

numWorkers == IF config.clock THEN 3 ELSE 2

\* Run: for i := 0; i < numWorkers; i++ { <-d.wg }
Run_receive ==
    /\ ~panicked
    /\ pc["Run"] = "collect"
    /\ received < numWorkers
    /\ wg > 0
    /\ wg' = wg - 1
    /\ received' = received + 1
    /\ UNCHANGED <<codecVars, op, sendVars, stationVars, config, pc, stopChan, locals, panicked>>

\* Run: the loop is over, "Daemon exited."
Run_return ==
    /\ ~panicked
    /\ pc["Run"] = "collect"
    /\ received = numWorkers
    /\ Goto("Run", "exited")
    /\ UNCHANGED <<codecVars, op, sendVars, stationVars, config, stopChan, wg, received,
                   locals, panicked>>

\* worker w leaves a select for its next send, with the next text as k
\* (psWorker: idx++, or the k-th of the texts); the send is one chosen before
\* or after the stop
Begins(w, k) ==
    locals' = [locals EXCEPT ![w] =
                  IF stopChan = "open" THEN [@ EXCEPT !.k = k, !.before = @ + 1]
                  ELSE [@ EXCEPT !.k = k, !.after = @ + 1]]

\* the outer select of a worker: it returns when stopChan is closed
Worker_select_stop(w) ==
    /\ ~panicked
    /\ pc[w] = "select"
    /\ stopChan = "closed"
    /\ Goto(w, "return")
    /\ UNCHANGED <<codecVars, op, sendVars, stationVars, config, stopChan, wg, received,
                   locals, panicked>>

\* the outer select of a worker, default (stopChan is not closed): the
\* worker goes on to send its next text
Worker_select_default(w) ==
    /\ ~panicked
    /\ pc[w] = "select"
    /\ stopChan = "open"
    /\ MaySend
    /\ Begins(w, IF w = "psWorker" THEN (IF Scrolling THEN locals[w].k + 1 ELSE 1)
                 ELSE locals[w].k)
    /\ Goto(w, "sendMessage")
    /\ UNCHANGED <<codecVars, op, sendVars, stationVars, config, stopChan, wg, received, panicked>>

\* sendMessage, openSerialPort: a handle that is not nil is taken as open;
\* otherwise serial.OpenPort is called, and a failure logged and the send over
main_openSerialPort(w) ==
    /\ ~panicked
    /\ pc[w] = "sendMessage"
    /\ IF serialPort # "nil"
       THEN /\ Goto(w, "Write")
            /\ UNCHANGED logged
       ELSE \E o \in Faults(OpenOutcomes) :
               IF o = "ok"
               THEN /\ Goto(w, "opened")
                    /\ UNCHANGED logged
               ELSE /\ Goto(w, "wait")
                    /\ logged' = "open"
    /\ UNCHANGED <<codecVars, op, afList, text, message, err, port, serialPort, wire, calls,
                   stationVars, daemonVarsButPc>>

\* openSerialPort: u.serialPort = s
main_openSerialPort_assign(w) ==
    /\ ~panicked
    /\ pc[w] = "opened"
    /\ serialPort' = "open"
    /\ Goto(w, "Write")
    /\ UNCHANGED <<codecVars, op, afList, text, message, err, logged, port, wire, calls,
                   stationVars, daemonVarsButPc>>

\* sendMessage: u.serialPort.Write(frame); a closed port refuses the write
main_Write(w) ==
    /\ ~panicked
    /\ pc[w] = "Write"
    /\ IF serialPort = "nil"
       THEN /\ panicked' = TRUE
            /\ UNCHANGED <<pc, wire, logged>>
       ELSE /\ UNCHANGED panicked
            /\ \E o \in Faults({"ok", "write"}) :
                  IF o = "ok" /\ serialPort = "open"
                  THEN /\ wire' = Append(wire, main_WorkerFrame(w))
                       /\ Goto(w, "Flush")
                       /\ UNCHANGED logged
                  ELSE /\ logged' = "write"
                       /\ Goto(w, "closeSerialPort")
                       /\ UNCHANGED wire
    /\ UNCHANGED <<codecVars, op, afList, text, message, err, port, serialPort, calls,
                   stationVars, config, stopChan, wg, received, locals>>

\* sendMessage: u.serialPort.(*serial.Port).Flush(); a failure is logged
main_Flush(w) ==
    /\ ~panicked
    /\ pc[w] = "Flush"
    /\ IF serialPort = "nil"
       THEN /\ panicked' = TRUE
            /\ UNCHANGED <<pc, logged>>
       ELSE /\ UNCHANGED panicked
            /\ \E o \in Faults({"ok", "flush"}) :
                  IF o = "ok" /\ serialPort = "open"
                  THEN UNCHANGED logged
                  ELSE logged' = "flush"
            /\ Goto(w, "Sleep")
    /\ UNCHANGED <<codecVars, op, afList, text, message, err, port, serialPort, wire, calls,
                   stationVars, config, stopChan, wg, received, locals>>

\* sendMessage: time.Sleep(u.delay) is over
main_Sleep(w) ==
    /\ ~panicked
    /\ pc[w] = "Sleep"
    /\ Goto(w, "closeSerialPort")
    /\ UNCHANGED <<codecVars, op, sendVars, stationVars, daemonVarsButPc>>

\* the deferred closeSerialPort: a handle that is not nil is closed
main_closeSerialPort(w) ==
    /\ ~panicked
    /\ pc[w] = "closeSerialPort"
    /\ IF serialPort # "nil"
       THEN /\ serialPort' = "closed"
            /\ Goto(w, "closed")
       ELSE /\ UNCHANGED serialPort
            /\ Goto(w, "wait")
    /\ UNCHANGED <<codecVars, op, afList, text, message, err, logged, port, wire, calls,
                   stationVars, daemonVarsButPc>>

\* closeSerialPort: u.serialPort = nil
main_closeSerialPort_assign(w) ==
    /\ ~panicked
    /\ pc[w] = "closed"
    /\ serialPort' = "nil"
    /\ Goto(w, "wait")
    /\ UNCHANGED <<codecVars, op, afList, text, message, err, logged, port, wire, calls,
                   stationVars, daemonVarsButPc>>

\* the select after a send, case <-d.stopChan
Worker_wait_stop(w) ==
    /\ ~panicked
    /\ pc[w] = "wait"
    /\ stopChan = "closed"
    /\ Goto(w, "return")
    /\ UNCHANGED <<codecVars, op, sendVars, stationVars, daemonVarsButPc>>

\* the select after a send, case <-time.After(...): with stopChan closed the
\* timer is ready as well only if the interval is zero, and select then takes
\* either case.  psWorker in its loop over the texts goes on to the next
\* text; otherwise the worker is back at its outer select
Worker_wait_timer(w) ==
    /\ ~panicked
    /\ pc[w] = "wait"
    /\ stopChan = "open" \/ config.delay = 0
    /\ IF w = "psWorker" /\ ~Scrolling /\ locals[w].k < Len(PsTexts)
       THEN /\ MaySend
            /\ Begins(w, locals[w].k + 1)
            /\ Goto(w, "sendMessage")
       ELSE /\ UNCHANGED locals
            /\ Goto(w, "select")
    /\ UNCHANGED <<codecVars, op, sendVars, stationVars, config, stopChan, wg, received, panicked>>

\* the deferred d.wg <- struct{}{} of a worker that returns
Worker_return(w) ==
    /\ ~panicked
    /\ pc[w] = "return"
    /\ wg' = wg + 1
    /\ Goto(w, "done")
    /\ UNCHANGED <<codecVars, op, sendVars, stationVars, config, stopChan, received, locals,
                   panicked>>

\* the example program: rds.SendStaticInit(), and log.Fatalf on an error
Example_SendStaticInit ==
    /\ pc["main"] = "SendStaticInit"
    /\ \E os \in StaticOutcomes : Returns(SendStaticInit_sends(Line, 1, os))
    /\ Goto("main", IF err' # "nil" THEN "fatal" ELSE "SendPS")
    /\ UNCHANGED <<codecVars, op, afList, text, stationVars, daemonVarsButPc>>

\* the example program: rds.SendPS("DEMO"), and log.Fatalf on an error
Example_SendPS ==
    /\ pc["main"] = "SendPS"
    /\ \E o \in Outcomes : Returns(sendMessage(Line, buildGroup(\h02, SendPS_ps(text)), o))
    /\ Goto("main", IF err' # "nil" THEN "fatal" ELSE "exited")
    /\ UNCHANGED <<codecVars, op, afList, text, stationVars, daemonVarsButPc>>

NextPrograms ==
    \/ Run_SendStaticInit
    \/ Run_SendAF
    \/ Run_go
    \/ Run_close
    \/ Run_receive
    \/ Run_return
    \/ \E w \in Workers : Worker_select_stop(w)
    \/ \E w \in Workers : Worker_select_default(w)
    \/ \E w \in Workers : main_openSerialPort(w)
    \/ \E w \in Workers : main_openSerialPort_assign(w)
    \/ \E w \in Workers : main_Write(w)
    \/ \E w \in Workers : main_Flush(w)
    \/ \E w \in Workers : main_Sleep(w)
    \/ \E w \in Workers : main_closeSerialPort(w)
    \/ \E w \in Workers : main_closeSerialPort_assign(w)
    \/ \E w \in Workers : Worker_wait_stop(w)
    \/ \E w \in Workers : Worker_wait_timer(w)
    \/ \E w \in Workers : Worker_return(w)
    \/ Example_SendStaticInit
    \/ Example_SendPS

SpecPrograms == InitPrograms /\ [][NextPrograms]_vars

(***************************************************************************)
(* Reference definitions the properties are stated against.  They do not   *)
(* follow the code: the CRC register is a tuple of 16 bits (r[k] is the    *)
(* bit of weight 2^(k-1)), stuffing is described by positions.             *)
(***************************************************************************)
Bit(x, i) == (x \div (2 ^ i)) % 2

RegXorByte(r, b) ==
    <<r[1], r[2], r[3], r[4], r[5], r[6], r[7], r[8],
      (r[9] + Bit(b, 0)) % 2, (r[10] + Bit(b, 1)) % 2, (r[11] + Bit(b, 2)) % 2,
      (r[12] + Bit(b, 3)) % 2, (r[13] + Bit(b, 4)) % 2, (r[14] + Bit(b, 5)) % 2,
      (r[15] + Bit(b, 6)) % 2, (r[16] + Bit(b, 7)) % 2>>

\* shift left by one; XOR with 0x1021 (bits 12, 5 and 0) when the top bit was set
RegShift(r) ==
    LET t == r[16]
    IN  <<t, r[1], r[2], r[3], r[4], (r[5] + t) % 2, r[6], r[7],
          r[8], r[9], r[10], r[11], (r[12] + t) % 2, r[13], r[14], r[15]>>

RegByte(r, b) ==
    RegShift(RegShift(RegShift(RegShift(
    RegShift(RegShift(RegShift(RegShift(RegXorByte(r, b)))))))))

RECURSIVE RegBytes(_, _, _, _)
RegBytes(r, d, lo, hi) ==
    IF lo > hi \/ ~Evaluated(r) THEN r
    ELSE IF lo = hi THEN RegByte(r, d[lo])
    ELSE LET mid == (lo + hi) \div 2
         IN  RegBytes(RegBytes(r, d, lo, mid), d, mid + 1, hi)

RECURSIVE RegValue(_, _)
RegValue(r, k) ==
    IF k > 16 THEN 0 ELSE r[k] * (2 ^ (k - 1)) + RegValue(r, k + 1)

RefCrc(d) ==
    LET ones  == <<1, 1, 1, 1, 1, 1, 1, 1, 1, 1, 1, 1, 1, 1, 1, 1>>
        final == RegBytes(ones, d, 1, Len(d))
    IN  RegValue([k \in 1..16 |-> 1 - final[k]], 1)

IsTrigger(b) == b \in {\hFE, \hFF}

\* the number of bytes equal to 0xFE or 0xFF among d[1..i]
Triggers(d, i) == Cardinality({j \in 1..i : IsTrigger(d[j])})

\* the place of d[i] in the stuffing of d
Place(d, i) == i + Triggers(d, i - 1)

\* o is d with one 0xFD after each 0xFE and 0xFF, and nothing else changed
IsStuffingOf(o, d) ==
    /\ Len(o) = Len(d) + Triggers(d, Len(d))
    /\ \A i \in 1..Len(d) :
          /\ o[Place(d, i)] = d[i]
          /\ IsTrigger(d[i]) => o[Place(d, i) + 1] = \hFD

\* the positions a re-scan marks: each 0xFD right after a 0xFE or 0xFF
Marked(o) == {i \in 2..Len(o) : o[i] = \hFD /\ IsTrigger(o[i - 1])}

RECURSIVE UnmarkLoop(_, _, _, _, _)
UnmarkLoop(acc, o, marked, lo, hi) ==
    IF lo > hi \/ ~Evaluated(acc) THEN acc
    ELSE IF lo = hi THEN (IF lo \in marked THEN acc ELSE Append(acc, o[lo]))
    ELSE LET mid == (lo + hi) \div 2
         IN  UnmarkLoop(UnmarkLoop(acc, o, marked, lo, mid), o, marked, mid + 1, hi)

\* o without its marked bytes
Unmark(o) == UnmarkLoop(<<>>, o, Marked(o), 1, Len(o))

(***************************************************************************)
(* C1: buildFrame(msg), in both copies and for messages longer than 255    *)
(* bytes too, is 0xFE, then the stuffing of header ++ msg ++ CRC with the  *)
(* header [0,0,0, len(msg) mod 256] and the CRC of header ++ msg, then     *)
(* 0xFF: the message is whole, the delimiters are not stuffed.  The frames *)
(* of the package's tests are what it returns for their groups.            *)
(***************************************************************************)
C1_FrameLayout ==
    op \in {"buildFrame", "main_buildFrame"} =>
        LET header == <<\h00, \h00, \h00, Len(data) % 256>>
            c      == RefCrc(header \o data)
            full   == header \o data \o <<c \div 256, c % 256>>
        IN  /\ Len(out) >= 2
            /\ out[1] = \hFE
            /\ out[Len(out)] = \hFF
            /\ IsStuffingOf(SubSeq(out, 2, Len(out) - 1), full)
            /\ \A t \in TestFrames : data = t[1] => out = t[2]

C1_Witness ==
    /\ op = "buildFrame"
    /\ Len(data) > 255
    /\ Len(out) > Len(data) + 8

(***************************************************************************)
(* C2: both copies of crc16 return the value of the bitwise reference      *)
(* (register 0xFFFF, polynomial 0x1021, final XOR 0xFFFF); for the bytes   *)
(* 00 00 00 05 01 00 00 13 37 that is 0x1E49.                              *)
(***************************************************************************)
C2_CrcReference ==
    op \in {"crc16", "main_crc16"} =>
        /\ crc = RefCrc(data)
        /\ data = PIHeaderAndMessage => crc = \h1E49

C2_Witness ==
    /\ op = "main_crc16"
    /\ data = PIHeaderAndMessage
    /\ crc = \h1E49

(***************************************************************************)
(* C3: byteStuff copies every byte unchanged and in order and puts one     *)
(* 0xFD right after each 0xFE and each 0xFF and nowhere else; the output   *)
(* is as long as the input plus its number of 0xFE/0xFF bytes.             *)
(***************************************************************************)
C3_StuffInserts ==
    op \in {"byteStuff", "main_byteStuff"} =>
        /\ IsStuffingOf(out, data)
        /\ Len(out) = Len(data) + Len(SelectSeq(data, IsTrigger))

C3_Witness ==
    /\ op = "byteStuff"
    /\ data = <<\hFE, \h00, \hFF>>
    /\ out = <<\hFE, \hFD, \h00, \hFF, \hFD>>

(***************************************************************************)
(* C4: in byteStuff(d) the 0xFD bytes right after a 0xFE or 0xFF are       *)
(* exactly the inserted ones, also when d holds 0xFD bytes of its own:     *)
(* deleting them gives d back.                                             *)
(***************************************************************************)
C4_RescanFindsMarkers ==
    op \in {"byteStuff", "main_byteStuff"} =>
        /\ Marked(out) = {Place(data, i) + 1 : i \in {j \in 1..Len(data) : IsTrigger(data[j])}}
        /\ Unmark(out) = data

C4_Witness ==
    /\ op = "main_byteStuff"
    /\ data = <<\hFE, \hFD, \hFD>>
    /\ out = <<\hFE, \hFD, \hFD, \hFD>>

(***************************************************************************)
(* C5: buildGroup(mec, data) is [mec div 256, mec mod 256, 0] ++ data for  *)
(* mec > 0xFF and [mec, 0, 0] ++ data otherwise; three bytes longer than   *)
(* data, which follows the header unchanged.                               *)
(***************************************************************************)
C5_GroupHeader ==
    op \in {"buildGroup", "main_buildGroup"} =>
        /\ Len(out) = Len(data) + 3
        /\ SubSeq(out, 1, 3) = IF mec > 255 THEN <<mec \div 256, mec % 256, 0>>
                               ELSE <<mec, 0, 0>>
        /\ SubSeq(out, 4, Len(out)) = data

C5_Witness ==
    /\ op = "buildGroup"
    /\ mec = \h0D19
    /\ data = <<\h37, \hFF>>
    /\ out = <<\h0D, \h19, \h00, \h37, \hFF>>

(***************************************************************************)
(* Reference definitions for the AF and text properties.                   *)
(***************************************************************************)
\* a frequency of the valid range 87.6 .. 107.9 MHz
InRange(f) == f >= 8760 /\ f <= 10790

\* the codes 10 * f - 875 of the entries of the list that are in range, in order
Kept(list) ==
    LET valid == SelectSeq(list, InRange)
    IN  [i \in 1..Len(valid) |-> (valid[i] - 8750) \div 10]

Zeros(n) == [i \in 1..n |-> 0]

IsAFCall == op \in {"buildAFPayload", "main_buildAFPayload"}

\* the text cut or padded with spaces to exactly w bytes
Fit(t, w) == [i \in 1..w |-> IF i <= Len(t) THEN t[i] ELSE \h20]

(***************************************************************************)
(* C6: with 4 to 11 valid codes the AF payload is the 17 bytes             *)
(* [0x0F, 0, 0, 0xEB], the codes once each in order, zeros up to 11        *)
(* slots, [0x00, 0xAC].                                                    *)
(***************************************************************************)
C6_Layout0F ==
    LET kept == Kept(afList)
        n    == Len(kept)
    IN  (IsAFCall /\ n >= 4 /\ n <= 11) =>
            /\ Len(out) = 17
            /\ out = ((<<\h0F, \h00, \h00, \hEB>> \o kept) \o Zeros(11 - n)) \o <<\h00, \hAC>>

(***************************************************************************)
(* C7: with one valid code the AF payload is [05 00 00 E1 c 00 60], with   *)
(* two [07 00 00 E2 c1 c2 00 00 D3], with three [07 00 00 E3 c1 c2 c3 00   *)
(* EE].                                                                    *)
(***************************************************************************)
C7_SmallLayouts ==
    LET kept == Kept(afList)
        n    == Len(kept)
    IN  IsAFCall =>
            /\ n = 1 => out = <<\h05, \h00, \h00, \hE1, kept[1], \h00, \h60>>
            /\ n = 2 => out = <<\h07, \h00, \h00, \hE2, kept[1], kept[2], \h00, \h00, \hD3>>
            /\ n = 3 => out = <<\h07, \h00, \h00, \hE3, kept[1], kept[2], kept[3], \h00, \hEE>>

C7_Witness ==
    /\ op = "buildAFPayload"
    /\ afList = <<9240, 9250, 10791>>
    /\ out = <<\h07, \h00, \h00, \hE2, \h31, \h32, \h00, \h00, \hD3>>

(***************************************************************************)
(* C8: SendAF with no valid code writes no frame and returns no error;     *)
(* SendAF with more than 11 valid codes writes no frame and returns an     *)
(* error to its caller.                                                    *)
(***************************************************************************)
C8_SendAFReports ==
    LET n == Len(Kept(afList))
    IN  op \in {"SendAF", "main_SendAF"} =>
            /\ n = 0 => (wire = <<>> /\ err = "nil")
            /\ n > 11 => (wire = <<>> /\ err # "nil")

(***************************************************************************)
(* C9: every frequency of 87.6 .. 107.9 MHz on the 0.1 MHz grid is encoded *)
(* as 10 * f - 875, a code in 1 .. 204; the others are dropped; the codes  *)
(* keep the order of the input; the layout goes by the number of codes     *)
(* kept, whatever the length of the input.                                 *)
(***************************************************************************)
C9_KeptCodesChooseLayout ==
    LET kept == Kept(afList)
        n    == Len(kept)
    IN  IsAFCall =>
            /\ \A i \in 1..n : kept[i] >= 1 /\ kept[i] <= 204
            /\ (n = 0 \/ n > 11) <=> out = Nil
            /\ n = 1 => out[1] = \h05
            /\ (n >= 2 /\ n <= 3) => out[1] = \h07
            /\ (n >= 4 /\ n <= 11) => out[1] = \h0F
            /\ (n >= 1 /\ n <= 11) => SubSeq(out, 5, 4 + n) = kept

C9_Witness ==
    /\ op = "buildAFPayload"
    /\ afList = <<8759>> \o AFRun(11)
    /\ Len(afList) > 11
    /\ out[1] = \h0F
    /\ SubSeq(out, 5, 15) = [i \in 1..11 |-> \h31 + (i - 1)]

(***************************************************************************)
(* C10: for a text of any length SendPS builds the message [02 00 00]      *)
(* plus exactly 8 text bytes and SendRT the message [0A 00 00 41 00] plus  *)
(* exactly 64 text bytes: the first 8 / 64 bytes of a longer text, a       *)
(* shorter one padded with 0x20 on the right.  No text is rejected: the    *)
(* message is built and, the transport willing, its frame written.         *)
(***************************************************************************)
C10_TextFieldWidth ==
    /\ op \in {"SendPS", "main_SendPS"} =>
          /\ Len(message) = 3 + 8
          /\ message = <<\h02, \h00, \h00>> \o Fit(text, 8)
    /\ op \in {"SendRT", "main_SendRT"} =>
          /\ Len(message) = 3 + 2 + 64
          /\ message = <<\h0A, \h00, \h00, \h41, \h00>> \o Fit(text, 64)
    /\ (op # "none" /\ err = "nil" /\ logged = "none") => Len(wire) = 1

C10_Witness ==
    /\ op = "SendRT"
    /\ Len(text) > 64
    /\ err = "nil"
    /\ Len(wire) = 1
    /\ SubSeq(message, 6, 69) = SubSeq(text, 1, 64)

\* the data bytes of the daemon's clock message: day, hour, minute, second
ClockFields == <<dt.day, dt.hour, dt.minute, dt.second>>

(***************************************************************************)
(* C11, as stated: whichever copy sends the clock, the message handed to   *)
(* buildFrame is the 9 bytes [0D 19 06 day hour minute second 00 00].      *)
(***************************************************************************)
C11_ClockMessageDirect ==
    op \in {"SendCTProfline", "main_SendCTProfline"} =>
        message = (<<\h0D, \h19, \h06>> \o ClockFields) \o <<\h00, \h00>>

(***************************************************************************)
(* C11, amended: the daemon's SendCTProfline hands buildFrame the 9 bytes  *)
(* [0D 19 06 day hour minute second 00 00], for every timestamp; the byte  *)
(* after the MEC is 0x06, and the frame written carries that message.      *)
(***************************************************************************)
C11_DaemonClockMessageDirect ==
    op = "main_SendCTProfline" =>
        /\ Len(message) = 9
        /\ message[3] = \h06
        /\ message = (<<\h0D, \h19, \h06>> \o ClockFields) \o <<\h00, \h00>>
        /\ Len(wire) = 1 => SubSeq(wire[1], 5, 14) = <<9>> \o message

C11_Witness ==
    /\ op = "main_SendCTProfline"
    /\ dt = TestTime
    /\ logged = "none"
    /\ Len(wire) = 1
    /\ message = <<\h0D, \h19, \h06, 25, 12, 34, 56, \h00, \h00>>

(***************************************************************************)
(* C12: the package's SendCTProfline hands buildFrame the 11 bytes         *)
(* [0D 19 00 year%100 month day hour minute second 00 00], the group       *)
(* buildGroup builds for MEC 0x0D19; the frame written has the length byte *)
(* 0x0B, and for 2023-08-25 12:34:56 it is                                 *)
(* fe0000000b0d19001708190c22380000337dff.                                 *)
(***************************************************************************)
C12_PackageClockFrame ==
    op = "SendCTProfline" =>
        /\ Len(message) = 11
        /\ message = <<\h0D, \h19, \h00, dt.year % 100, dt.month, dt.day, dt.hour,
                       dt.minute, dt.second, \h00, \h00>>
        /\ Len(wire) = 1 =>
              /\ wire[1][5] = \h0B
              /\ SubSeq(wire[1], 6, 16) = message
              /\ dt = TestTime =>
                    wire[1] = <<\hFE, \h00, \h00, \h00, \h0B, \h0D, \h19, \h00, \h17, \h08,
                                \h19, \h0C, \h22, \h38, \h00, \h00, \h33, \h7D, \hFF>>

C12_Witness ==
    /\ op = "SendCTProfline"
    /\ dt = TestTime
    /\ err = "nil"
    /\ Len(wire) = 1
    /\ wire[1][9] = \h17


\* the places of seq whose entry is in the set S
Places(seq, S) == {i \in 1..Len(seq) : seq[i] \in S}

\* the operations that send one frame, and those that send
SingleSends ==
    {"SendTPTA", "SendPI", "SendPTY", "SendMS", "SendDI", "SendCTProfline", "SendPS",
     "SendRT", "SendAF", "main_SendTPTA", "main_SendPI", "main_SendPTY", "main_SendMS",
     "main_SendDI", "main_SendCTProfline", "main_SendPS", "main_SendRT", "main_SendAF"}

SendOps == SingleSends \cup {"SendStaticInit", "main_SendStaticInit"}

(***************************************************************************)
(* C15: when the open, the write or the flush of a send fails, the send    *)
(* returns an error to its caller; a send of one frame attempts one write  *)
(* at most; and a failed open or write is followed by no flush and no      *)
(* delay.                                                                  *)
(***************************************************************************)
C15_TransportErrorsSurface ==
    LET fails  == Places(calls, {"Open failed", "Write failed", "Flush failed"})
        early  == Places(calls, {"Open failed", "Write failed"})
        writes == Places(calls, {"Write", "Write failed"})
        after  == Places(calls, {"Flush", "Flush failed", "Sleep"})
    IN  /\ op \in SendOps => (fails # {} => err # "nil")
        /\ op \in SingleSends =>
              /\ Cardinality(writes) <= 1
              /\ \A i \in early : \A j \in after : j < i

(***************************************************************************)
(* C17: no operation changes pi, pty, ms, tp, ta or di, nor the text or    *)
(* the frequency list of its caller.                                       *)
(***************************************************************************)
C17_StationImmutable ==
    [][/\ pi' = pi
       /\ pty' = pty
       /\ ms' = ms
       /\ tp' = tp
       /\ ta' = ta
       /\ di' = di
       /\ text' = text
       /\ afList' = afList]_vars

C17_Witness ==
    /\ op = "Close"
    /\ calls = <<"Close">>
    /\ port = "nil"
    /\ pi = \h12345
    /\ text = DemoText

(***************************************************************************)
(* C18: TP/TA is [03 00 00 v] with v = 2 * TP + TA; PI is [01 00 00 hi lo] *)
(* with hi = (pi div 256) mod 256 and lo = pi mod 256, whatever pi is; PTY *)
(* is [07 00 00 pty mod 256]; MS is [05 00 00 m] with m = 1 for music, 0   *)
(* for speech; DI is [04 00 00 di], and the daemon's di is stereo +        *)
(* 2 * artificial head + 4 * compressed + 8 * dynamic PTY, within 0 .. 15. *)
(***************************************************************************)
C18_StaticFieldMessages ==
    LET b(x) == IF x THEN 1 ELSE 0
        f    == config.flags
        d    == b(f.stereo) + 2 * b(f.artificialHead) + 4 * b(f.compressed)
                + 8 * b(f.dynamicPty)
    IN  /\ op \in {"SendTPTA", "main_SendTPTA"} =>
              /\ message = <<\h03, \h00, \h00, 2 * b(tp) + b(ta)>>
              /\ message[4] \in 0..3
        /\ op \in {"SendPI", "main_SendPI"} =>
              message = <<\h01, \h00, \h00, (pi \div 256) % 256, pi % 256>>
        /\ op \in {"SendPTY", "main_SendPTY"} => message = <<\h07, \h00, \h00, pty % 256>>
        /\ op \in {"SendMS", "main_SendMS"} => message = <<\h05, \h00, \h00, b(ms)>>
        /\ op = "SendDI" => message = <<\h04, \h00, \h00, di>>
        /\ op = "main_SendDI" => (message = <<\h04, \h00, \h00, d>> /\ d \in 0..15)

C18_Witness ==
    /\ op = "SendPI"
    /\ pi = \h12345
    /\ message = <<\h01, \h00, \h00, \h23, \h45>>
    /\ err = "nil"
    /\ Len(wire) = 1

(***************************************************************************)
(* C20: the package's SendStaticInit writes the frames of TP/TA, PI, PTY,  *)
(* MS, DI in this order and stops at the first send that fails: it returns *)
(* that error and no later field is written; when no send fails it returns *)
(* no error and five frames are on the wire.  serial.Open is called at     *)
(* most once and the handle it returned stays open.                        *)
(***************************************************************************)
C20_StaticInitStopsAtFirstError ==
    LET n     == Len(wire)
        fails == Places(calls, {"Open failed", "Write failed", "Flush failed"})
    IN  op = "SendStaticInit" =>
            /\ n <= 5
            /\ \A i \in 1..n : wire[i] = buildFrame(StaticMessages[i])
            /\ err = "nil" <=> fails = {}
            /\ err = "nil" => n = 5
            /\ err # "nil" =>
                  /\ fails = {Len(calls)}
                  /\ message = StaticMessages[IF err = "flush" THEN n ELSE n + 1]
            /\ Cardinality(Places(calls, {"Open"})) <= 1
            /\ Places(calls, {"Close", "Close failed"}) = {}
            /\ (n > 0 \/ Places(calls, {"Write failed"}) # {}) => port = "open"

C20_Witness ==
    /\ op = "SendStaticInit"
    /\ err = "write"
    /\ Len(wire) = 2
    /\ wire[2][6] = \h01
    /\ message[1] = \h07
    /\ calls = <<"Open", "Write", "Flush", "Sleep", "Write", "Flush", "Sleep", "Write failed">>
    /\ port = "open"

(***************************************************************************)
(* C13: the frames of the static fields are written in the order TP/TA     *)
(* (MEC 03), PI (01), PTY (07), MS (05), DI (04), each at most once, by    *)
(* SendStaticInit of the package and of the daemon; in the daemon they     *)
(* come before the AF frame (13), which comes before every PS, RT or clock *)
(* frame of the workers.  While no send has failed, all five are on the    *)
(* wire once SendStaticInit is over, and the AF frame is the sixth when AF *)
(* is enabled.                                                             *)
(***************************************************************************)
\* the place of a frame in the order, by its message element code
FrameRank(frame) ==
    LET m == frame[6]
    IN  IF m = \h03 THEN 1
        ELSE IF m = \h01 THEN 2
        ELSE IF m = \h07 THEN 3
        ELSE IF m = \h05 THEN 4
        ELSE IF m = \h04 THEN 5
        ELSE IF m = \h13 THEN 6
        ELSE 7

StaticDone ==
    \/ pc["Run"] \notin {"none", "SendStaticInit"}
    \/ pc["main"] \notin {"none", "SendStaticInit"}

C13_StaticInitOrder ==
    /\ \A i, j \in 1..Len(wire) :
          i < j => /\ FrameRank(wire[i]) <= FrameRank(wire[j])
                   /\ FrameRank(wire[i]) < 7 => FrameRank(wire[i]) < FrameRank(wire[j])
    /\ (StaticDone /\ logged = "none" /\ err = "nil") =>
          /\ Len(wire) >= 5
          /\ \A i \in 1..5 : FrameRank(wire[i]) = i
    /\ (pc["Run"] \notin {"none", "SendStaticInit", "SendAF"} /\ logged = "none") =>
          IF config.af
          THEN Len(wire) >= 6 /\ FrameRank(wire[6]) = 6
          ELSE \A i \in 1..Len(wire) : FrameRank(wire[i]) # 6

C13_Witness ==
    /\ pc["Run"] = "signal"
    /\ Len(wire) = 9
    /\ [i \in 1..9 |-> wire[i][6]]
           = <<\h03, \h01, \h07, \h05, \h04, \h13, \h0A, \h02, \h0D>>
    /\ pc["ctWorker"] = "Flush"

(***************************************************************************)
(* C14: the sends of the workers are serialized: at most one worker is     *)
(* inside sendMessage (from the open of the port to the end of the         *)
(* deferred close) at any time.                                            *)
(***************************************************************************)
\* the locations inside sendMessage, after its first statement
InSend == {"opened", "Write", "Flush", "Sleep", "closeSerialPort", "closed"}

C14_SendsSerialized == Cardinality({w \in Workers : pc[w] \in InSend}) <= 1

(***************************************************************************)
(* C16: every send of a worker is one it went on to with the stop channel  *)
(* open: a worker at a select with the stop channel closed returns.  A     *)
(* worker that returns signals once, and Run returns after one signal of   *)
(* each worker it started.                                                 *)
(***************************************************************************)
Started == {w \in Workers : pc[w] # "none"}

C16_StopObservedAtNextSelect ==
    /\ \A w \in Workers : locals[w].after = 0
    /\ wg + received = Cardinality({w \in Workers : pc[w] = "done"})
    /\ pc["Run"] = "exited" =>
          /\ received = numWorkers
          /\ Cardinality(Started) = numWorkers
          /\ \A w \in Started : pc[w] = "done"

(***************************************************************************)
(* C19: in the daemon, a worker at the Write or at the Flush of            *)
(* sendMessage finds the shared handle serialPort open: not nil and not    *)
(* closed by another worker's closeSerialPort.  Stated of the runs in      *)
(* which no call on the serial line has failed.                            *)
(***************************************************************************)
C19_HandleOpenAtWrite ==
    logged = "none" =>
        \A w \in Workers : pc[w] \in {"Write", "Flush"} => serialPort = "open"

====
